---- MODULE Spec2Model ----
(***************************************************************************)
(* Model of the two schema-driven batch ETL scripts of the repository:     *)
(*   python_essentials/apps/File_Format_Converter/app.py  ("converter")    *)
(*   python_essentials/apps/file-to-db-loader/app.py      ("loader")       *)
(* The converter runs one dataset after the other; the loader maps the     *)
(* datasets over a multiprocessing.Pool.  A row of a source file is        *)
(* identified by its 1-based line number, a batch (DataFrame) by the       *)
(* interval lo..hi of the rows it holds, tagged with the job that wrote it, *)
(* so that the records of one run are told from those of another.  A table *)
(* is a bag of rows: it keeps no order between the rows of different jobs.  *)
(***************************************************************************)
EXTENDS Integers, Sequences, FiniteSets, Bags, TLC

\* ------------------------------------------------------------------ bounds
\* longest explicit list of dataset names handed to process_files
MaxList == 2
\* the largest file the reader is run on holds MaxChunks full chunks and more
MaxChunks == 2
\* the pool specification dispatches up to PoolCap + MaxExtra datasets
MaxExtra == 1
\* the column definitions of the column specification have positions 1..MaxPos
MaxPos == 2

\* --------------------------------------------------------- program constants
\* pd.read_csv(..., chunksize=10000)
ChunkSize == 10000
\* min(len(ds_names), 8)
PoolCap == 8

Names == {"A", "B"}
\* process_files() without an argument, and process_files(l)
None == [given |-> FALSE, list |-> <<>>]
Given(l) == [given |-> TRUE, list |-> l]
NoExc == "none"

Min(a, b) == IF a < b THEN a ELSE b

VARIABLES
  app,        \* which script runs: "converter" or "loader"
  schemaOK,   \* whether <src_base_dir>/schemas.json can be opened and parsed
  schemas,    \* the schema document: dataset name -> list of column definitions
  files,      \* source tree: dataset name -> what glob returns for <name>/part-*
  arg,        \* the ds_names argument of process_files: None or a list
  pc,         \* position of process_files: "call", "pool", "loop", "returned", "raised"
  raised,     \* the exception that left process_files (NoExc when none)
  ds_names,   \* the list of names process_files works on
  pprocess,   \* the pool size of the loader
  jobs,       \* one record per entry of ds_names: the Dataset Job's state
  tables,     \* table sink: dataset name -> the bag of batches its table holds
  dirs,       \* file sink: dataset names whose target directory exists
  jsonFiles   \* file sink: dataset name -> (file name -> content, batch by batch)

vars == <<app, schemaOK, schemas, files, arg, pc, raised, ds_names, pprocess,
          jobs, tables, dirs, jsonFiles>>

env == <<app, schemaOK, schemas, files, arg>>

\* ------------------------------------------------------------ the schema
\* a sort that puts a definition before the ones of its own position
RECURSIVE InsertCol_unstable(_, _)
InsertCol_unstable(col, sorted) ==
  IF sorted = <<>> THEN <<col>>
  ELSE IF col.column_position <= Head(sorted).column_position
       THEN <<col>> \o sorted
       ELSE <<Head(sorted)>> \o InsertCol_unstable(col, Tail(sorted))

\* get_column_names: sorted(column_details, key=column_position), a stable sort
RECURSIVE InsertCol(_, _)
InsertCol(col, sorted) ==
  IF sorted = <<>> THEN <<col>>
  ELSE IF col.column_position < Head(sorted).column_position
       THEN <<col>> \o sorted
       ELSE <<Head(sorted)>> \o InsertCol(col, Tail(sorted))

RECURSIVE SortCols(_)
SortCols(cols) ==
  IF cols = <<>> THEN <<>>
  ELSE InsertCol(cols[Len(cols)], SortCols(SubSeq(cols, 1, Len(cols) - 1)))

get_column_names(sch, ds_name) ==
  LET columns == SortCols(sch[ds_name])
  IN  [k \in 1..Len(columns) |-> columns[k].column_name]

\* the column definitions of the example schema, out of position order
ColumnDefs ==
  << [column_name |-> "amount", column_position |-> 2],
     [column_name |-> "id", column_position |-> 1] >>

\* ------------------------------------------------------- the source files
File(n, r, b) == [name |-> n, rows |-> r, bad |-> b]

\* What glob may return for one dataset: no file, an empty file, a one-row
\* file, a two-chunk file and a small one in either order, and a file whose
\* last row (in its second chunk) is malformed, followed by a good one.
FileLists ==
  { <<>>,
    << File("part-0", 0, 0) >>,
    << File("part-0", 1, 0) >>,
    << File("part-0", ChunkSize + 1, 0), File("part-1", 1, 0) >>,
    << File("part-1", 1, 0), File("part-0", ChunkSize + 1, 0) >>,
    << File("part-0", ChunkSize + 1, ChunkSize + 1), File("part-1", 1, 0) >> }

RECURSIVE SeqsUpTo(_, _)
SeqsUpTo(S, n) ==
  IF n = 0 THEN {<<>>}
  ELSE LET shorter == SeqsUpTo(S, n - 1)
       IN  shorter \cup {Append(s, x) : s \in {t \in shorter : Len(t) = n - 1}, x \in S}

\* ------------------------------------------------------ the chunked reader
\* a reader that starts each chunk at the last row of the one before
NextChunk_overlap(f, pos, first) ==
  IF pos >= f.rows
  THEN IF first THEN [kind |-> "chunk", lo |-> pos + 1, hi |-> pos]
       ELSE [kind |-> "stop", lo |-> 0, hi |-> 0]
  ELSE [kind |-> "chunk", lo |-> pos, hi |-> Min(pos + ChunkSize, f.rows)]

\* One step of the iterator pd.read_csv(file, names=columns, chunksize=10000)
\* returns, at `pos` rows consumed: the next ChunkSize rows (fewer at the end of
\* the file), a ParserError when a malformed row lies among them, and
\* StopIteration at the end of the file; the first read of a file with no row
\* returns an empty DataFrame instead of stopping (pandas' first-chunk rule).
NextChunk(f, pos, first) ==
  IF pos >= f.rows
  THEN IF first THEN [kind |-> "chunk", lo |-> pos + 1, hi |-> pos]
       ELSE [kind |-> "stop", lo |-> 0, hi |-> 0]
  ELSE LET hi == Min(pos + ChunkSize, f.rows)
       IN  IF f.bad \in (pos + 1)..hi
           THEN [kind |-> "error", lo |-> 0, hi |-> 0]
           ELSE [kind |-> "chunk", lo |-> pos + 1, hi |-> hi]

\* the whole file at once: the converter's pd.read_csv(file, names=columns)
ReadWhole(f) ==
  IF f.bad \in 1..f.rows
  THEN [kind |-> "error", lo |-> 0, hi |-> 0]
  ELSE [kind |-> "chunk", lo |-> 1, hi |-> f.rows]

\* every chunk the iterator yields for a file, in order (list(df_reader))
RECURSIVE ReadAll(_, _, _)
ReadAll(f, pos, first) ==
  LET c == NextChunk(f, pos, first)
  IN  IF c.kind = "chunk" THEN <<c>> \o ReadAll(f, c.hi, FALSE) ELSE <<>>

\* ---------------------------------------------------------- a Dataset Job
NoChunk == [job |-> 0, file |-> "", idx |-> 0, lo |-> 0, hi |-> 0, columns |-> <<>>]

NewJob(name) ==
  [ds |-> name, st |-> "queued", fi |-> 0, pos |-> 0, first |-> TRUE, idx |-> 0,
   chunk |-> NoChunk, exc |-> NoExc, out |-> <<>>]

\* an exception leaves db_loader / file_converter: their locals are gone
Raise(j, e) == [NewJob(j.ds) EXCEPT !.st = "ending", !.exc = e, !.out = j.out]

\* the loop body got a DataFrame from the reader: `for idx, df in enumerate(df_reader)`
Yield(i, j, c) ==
  IF c.kind = "error" THEN Raise(j, "ParserError")
  ELSE [j EXCEPT !.st = "write", !.pos = c.hi, !.first = FALSE, !.idx = @ + 1,
                 !.chunk = [job |-> i, file |-> files[j.ds][j.fi].name, idx |-> j.idx,
                            lo |-> c.lo, hi |-> c.hi,
                            columns |-> get_column_names(schemas, j.ds)]]

\* iteration k of `for file in files`: read_csv(file, schemas), whose
\* schemas[ds_name] raises KeyError for an unknown dataset, then the first chunk
OpenFile(i, j, k) ==
  IF k > Len(files[j.ds]) THEN Raise(j, NoExc)
  ELSE IF j.ds \notin DOMAIN schemas THEN Raise(j, "KeyError")
  ELSE LET o == [j EXCEPT !.fi = k, !.pos = 0, !.first = TRUE, !.idx = 0]
       IN  Yield(i, o, NextChunk(files[j.ds][k], 0, TRUE))

\* a loop that drops every other chunk of a file
Pull_skip(i, j) ==
  LET f == files[j.ds][j.fi]
      c == NextChunk(f, Min(j.pos + ChunkSize, f.rows), j.first)
  IN  IF c.kind = "stop" THEN OpenFile(i, j, j.fi + 1) ELSE Yield(i, j, c)

\* the next DataFrame of the current file, or the next file when it is exhausted
Pull(i, j) ==
  LET c == NextChunk(files[j.ds][j.fi], j.pos, j.first)
  IN  IF c.kind = "stop" THEN OpenFile(i, j, j.fi + 1) ELSE Yield(i, j, c)

\* a loader that does not look whether glob found anything
db_loader_begin_nocheck(i, j) == OpenFile(i, j, 1)

\* db_loader up to its first to_sql: glob, the NameError for no file, the first file
db_loader_begin(i, j) ==
  IF Len(files[j.ds]) = 0 THEN Raise(j, "NameError") ELSE OpenFile(i, j, 1)

\* if_exists='replace': the table is dropped and holds the batch alone
to_sql_replace(tbls, df, ds_name) == [tbls EXCEPT ![ds_name] = SetToBag({df})]

\* df.to_sql(ds_name, db_conn_uri, if_exists='append', index=False)
to_sql(tbls, df, ds_name) == [tbls EXCEPT ![ds_name] = @ (+) SetToBag({df})]

\* ------------------------------------------------------------- the pool
\* Pool.map's default chunksize: divmod(len(iterable), len(pool) * 4), rounded up
MapChunk(n, p) ==
  LET q == n \div (p * 4)
  IN  IF n % (p * 4) > 0 THEN q + 1 ELSE q

TaskOf(i) == (i - 1) \div MapChunk(Len(ds_names), pprocess)
FirstOfTask(i) == i = 1 \/ TaskOf(i - 1) # TaskOf(i)
LastOfTask(i) == i = Len(jobs) \/ TaskOf(i + 1) # TaskOf(i)

\* tasks a worker has taken and not finished: each occupies one worker process
BusyTasks ==
  {TaskOf(i) : i \in {k \in 1..Len(jobs) : FirstOfTask(k) /\ jobs[k].st # "queued"}}
  \ {TaskOf(i) : i \in {k \in 1..Len(jobs) : LastOfTask(k) /\ jobs[k].st = "done"}}

\* a worker process runs process_dataset on entry i: an idle worker takes the
\* next task of the queue, or the worker holding i's task has finished entry i-1
CanStart(i) ==
  /\ jobs[i].st = "queued"
  /\ IF FirstOfTask(i)
     THEN /\ \A k \in 1..(i - 1) : jobs[k].st # "queued"
          /\ Cardinality(BusyTasks) < pprocess
     ELSE jobs[i - 1].st = "done"

Running == {i \in 1..Len(jobs) : jobs[i].st \in {"write", "file", "ending"}}

\* ------------------------------------------------------------ process_files
\* every order the keys of the schema document can have
Perms(S) == {s \in [1..Cardinality(S) -> S] : \A a, b \in 1..Cardinality(S) : s[a] = s[b] => a = b}

\* `if ds_names is None`: a list that was given is taken as it is, empty or not
Resolve_strict(a, sch) == IF a.given THEN {a.list} ELSE Perms(DOMAIN sch)

\* `if not ds_names: ds_names = schemas.keys()`
Resolve(a, sch) == IF a.list = <<>> THEN Perms(DOMAIN sch) ELSE {a.list}

\* a pool as large as the list, whatever its length
PoolSize_uncapped(n) == n

\* pprocess = min(len(ds_names), 8)
PoolSize(n) == Min(n, PoolCap)

\* process_files up to the first Dataset Job: json.load(open(schemas.json)), the
\* default list, and for the loader min(len(ds_names), 8) and Pool(pprocess),
\* which raises ValueError for a size below 1
ProcessFiles ==
  /\ pc = "call"
  /\ IF ~schemaOK
     THEN /\ pc' = "raised"
          /\ raised' = "SchemaError"
          /\ UNCHANGED <<ds_names, pprocess, jobs>>
     ELSE \E names \in Resolve(arg, schemas) :
            /\ ds_names' = names
            /\ pprocess' = IF app = "loader" THEN PoolSize(Len(names)) ELSE 0
            /\ IF app = "loader" /\ PoolSize(Len(names)) < 1
               THEN /\ pc' = "raised"
                    /\ raised' = "ValueError"
                    /\ jobs' = <<>>
               ELSE /\ pc' = IF app = "loader" THEN "pool" ELSE "loop"
                    /\ raised' = NoExc
                    /\ jobs' = [i \in 1..Len(names) |-> NewJob(names[i])]
  /\ UNCHANGED <<env, tables, dirs, jsonFiles>>

\* --------------------------------------------------------------- the loader
\* a worker enters process_dataset(args): print, db_loader up to its first write
StartJob(i) ==
  /\ pc = "pool"
  /\ CanStart(i)
  /\ jobs' = [jobs EXCEPT ![i] = db_loader_begin(i, [@ EXCEPT !.out = Append(@, "Processing")])]
  /\ UNCHANGED <<env, pc, raised, ds_names, pprocess, tables, dirs, jsonFiles>>

\* to_sql(df, db_conn_uri, ds_name) returns: the batch is in the table; the loop
\* goes on to the next chunk, the next file or the end of db_loader
WriteChunk(i) ==
  /\ pc = "pool"
  /\ jobs[i].st = "write"
  /\ tables' = to_sql(tables, jobs[i].chunk, jobs[i].ds)
  /\ jobs' = [jobs EXCEPT ![i] = Pull(i, @)]
  /\ UNCHANGED <<env, pc, raised, ds_names, pprocess, dirs, jsonFiles>>

\* a loader that loads a dataset in one transaction: a failed append takes the
\* job's earlier batches out of the table again
WriteFails_rollback(i) ==
  /\ pc = "pool"
  /\ jobs[i].st = "write"
  /\ \E e \in {"SinkUnavailable", "SinkWriteFailed"} :
       jobs' = [jobs EXCEPT ![i] = Raise(@, e)]
  /\ tables' = [tables EXCEPT ![jobs[i].ds] =
                  [b \in {x \in DOMAIN @ : x.job # i} |-> @[b]]]
  /\ UNCHANGED <<env, pc, raised, ds_names, pprocess, dirs, jsonFiles>>

\* to_sql raises: the store cannot be reached, or it refuses the batch
WriteFails(i) ==
  /\ pc = "pool"
  /\ jobs[i].st = "write"
  /\ \E e \in {"SinkUnavailable", "SinkWriteFailed"} :
       jobs' = [jobs EXCEPT ![i] = Raise(@, e)]
  /\ UNCHANGED <<env, pc, raised, ds_names, pprocess, tables, dirs, jsonFiles>>

\* what process_dataset prints when db_loader has ended: the exception caught
\* by `except NameError` or `except Exception`, then the `finally` line
process_dataset_end(j) ==
  [j EXCEPT !.st = "done",
            !.out = @ \o (IF j.exc = NoExc THEN <<>> ELSE <<j.exc>>)
                      \o <<"completed successfully">>]

FinishJob(i) ==
  /\ pc = "pool"
  /\ jobs[i].st = "ending"
  /\ jobs' = [jobs EXCEPT ![i] = process_dataset_end(@)]
  /\ UNCHANGED <<env, pc, raised, ds_names, pprocess, tables, dirs, jsonFiles>>

\* a map that does not wait for its tasks (map_async)
MapDone_async == TRUE

\* pool.map(process_dataset, pd_args) returns when every task has ended
MapDone == \A i \in 1..Len(jobs) : jobs[i].st = "done"

PoolMapReturns ==
  /\ pc = "pool"
  /\ MapDone
  /\ pc' = "returned"
  /\ UNCHANGED <<env, raised, ds_names, pprocess, jobs, tables, dirs, jsonFiles>>

\* ------------------------------------------------------------ the converter
\* file_converter up to its first file: glob and the NameError for no file
file_converter_begin(j) ==
  IF Len(files[j.ds]) = 0 THEN Raise(j, "NameError") ELSE [j EXCEPT !.st = "file", !.fi = 1]

\* the loop of process_files enters its next iteration: print, file_converter
ConvStart(i) ==
  /\ pc = "loop"
  /\ jobs[i].st = "queued"
  /\ \A k \in 1..(i - 1) : jobs[k].st = "done"
  /\ jobs' = [jobs EXCEPT ![i] = file_converter_begin([@ EXCEPT !.out = Append(@, "Processing")])]
  /\ UNCHANGED <<env, pc, raised, ds_names, pprocess, tables, dirs, jsonFiles>>

\* df.to_json(json_file_path, orient='records', lines=True): the path is opened
\* for writing, so the file holds this DataFrame's records and nothing else
to_json(jf, df, ds_name, file_name) ==
  [jf EXCEPT ![ds_name] = (file_name :> <<df>>) @@ @]

\* the converter's read_csv(file, schemas): KeyError for an unknown dataset,
\* ParserError for a malformed row, else the whole file as one DataFrame
ConvRead(i, j) ==
  LET f == files[j.ds][j.fi]
  IN  IF j.ds \notin DOMAIN schemas THEN [kind |-> "KeyError", df |-> NoChunk]
      ELSE IF ReadWhole(f).kind = "error" THEN [kind |-> "ParserError", df |-> NoChunk]
      ELSE [kind |-> "df",
            df |-> [job |-> i, file |-> f.name, idx |-> 0, lo |-> 1, hi |-> f.rows,
                    columns |-> get_column_names(schemas, j.ds)]]

\* after to_json: the next file of the dataset, or the end of file_converter
ConvNextFile(j) ==
  IF j.fi < Len(files[j.ds]) THEN [j EXCEPT !.fi = @ + 1] ELSE Raise(j, NoExc)

\* a converter with a try/except around each file: a file that cannot be read
\* is noted and the loop goes on to the next file
ConvFile_perfile(i) ==
  /\ pc = "loop"
  /\ jobs[i].st = "file"
  /\ LET r == ConvRead(i, jobs[i])
     IN  IF r.kind # "df"
         THEN /\ jobs' = [jobs EXCEPT ![i] = [ConvNextFile(@) EXCEPT !.exc = r.kind]]
              /\ UNCHANGED <<dirs, jsonFiles>>
         ELSE /\ dirs' = dirs \cup {jobs[i].ds}
              /\ jsonFiles' = to_json(jsonFiles, r.df, jobs[i].ds, r.df.file)
              /\ jobs' = [jobs EXCEPT ![i] = [ConvNextFile(@) EXCEPT !.exc = jobs[i].exc]]
  /\ UNCHANGED <<env, pc, raised, ds_names, pprocess, tables>>

\* one iteration of `for file in files`: read_csv, then to_json (makedirs, write)
ConvFile(i) ==
  /\ pc = "loop"
  /\ jobs[i].st = "file"
  /\ LET r == ConvRead(i, jobs[i])
     IN  IF r.kind # "df"
         THEN /\ jobs' = [jobs EXCEPT ![i] = Raise(@, r.kind)]
              /\ UNCHANGED <<dirs, jsonFiles>>
         ELSE /\ dirs' = dirs \cup {jobs[i].ds}
              /\ jsonFiles' = to_json(jsonFiles, r.df, jobs[i].ds, r.df.file)
              /\ jobs' = [jobs EXCEPT ![i] = ConvNextFile(@)]
  /\ UNCHANGED <<env, pc, raised, ds_names, pprocess, tables>>

\* to_json raises: os.makedirs fails (nothing is created), or the write fails,
\* before the file is opened (it is untouched) or after (it is left truncated)
ConvFileFails(i) ==
  /\ pc = "loop"
  /\ jobs[i].st = "file"
  /\ ConvRead(i, jobs[i]).kind = "df"
  /\ \/ /\ jobs' = [jobs EXCEPT ![i] = Raise(@, "SinkUnavailable")]
        /\ UNCHANGED <<dirs, jsonFiles>>
     \/ /\ jobs' = [jobs EXCEPT ![i] = Raise(@, "SinkWriteFailed")]
        /\ dirs' = dirs \cup {jobs[i].ds}
        /\ \/ UNCHANGED jsonFiles
           \/ jsonFiles' = [jsonFiles EXCEPT ![jobs[i].ds] =
                              (files[jobs[i].ds][jobs[i].fi].name :> <<>>) @@ @]
  /\ UNCHANGED <<env, pc, raised, ds_names, pprocess, tables>>

\* a loop without the try/except
ConvCaught_nothing(e) == FALSE

\* the converter's `except NameError`: the only exception process_files catches
ConvCaught(e) == e = "NameError"

\* file_converter has ended: it returned, or raised a NameError that the loop
\* prints and passes over, or raised an exception that leaves process_files
ConvEnd(i) ==
  /\ pc = "loop"
  /\ jobs[i].st = "ending"
  /\ IF jobs[i].exc = NoExc
     THEN /\ jobs' = [jobs EXCEPT ![i].st = "done"]
          /\ UNCHANGED <<pc, raised>>
     ELSE IF ConvCaught(jobs[i].exc)
     THEN /\ jobs' = [jobs EXCEPT ![i].st = "done",
                                  ![i].out = @ \o <<jobs[i].exc, "Error processing">>]
          /\ UNCHANGED <<pc, raised>>
     ELSE /\ jobs' = [jobs EXCEPT ![i].st = "done"]
          /\ pc' = "raised"
          /\ raised' = jobs[i].exc
  /\ UNCHANGED <<env, ds_names, pprocess, tables, dirs, jsonFiles>>

\* the loop of process_files is over
ConvReturns ==
  /\ pc = "loop"
  /\ \A i \in 1..Len(jobs) : jobs[i].st = "done"
  /\ pc' = "returned"
  /\ UNCHANGED <<env, raised, ds_names, pprocess, jobs, tables, dirs, jsonFiles>>

\* ----------------------------------------------------------- specification
EnvInit ==
  /\ app \in {"converter", "loader"}
  /\ schemaOK \in BOOLEAN
  /\ schemas \in UNION {[K -> {ColumnDefs}] : K \in SUBSET Names}
  /\ files \in [Names -> FileLists]
  /\ arg \in {None} \cup {Given(l) : l \in SeqsUpTo(Names, MaxList)}

RunInit ==
  /\ pc = "call"
  /\ raised = NoExc
  /\ ds_names = <<>>
  /\ pprocess = 0
  /\ jobs = <<>>
  /\ tables = [n \in Names |-> EmptyBag]
  /\ dirs = {}
  /\ jsonFiles = [n \in Names |-> <<>>]

Init == EnvInit /\ RunInit

Next ==
  \/ ProcessFiles
  \/ \E i \in 1..Len(jobs) : StartJob(i)
  \/ \E i \in 1..Len(jobs) : WriteChunk(i)
  \/ \E i \in 1..Len(jobs) : WriteFails(i)
  \/ \E i \in 1..Len(jobs) : FinishJob(i)
  \/ PoolMapReturns
  \/ \E i \in 1..Len(jobs) : ConvStart(i)
  \/ \E i \in 1..Len(jobs) : ConvFile(i)
  \/ \E i \in 1..Len(jobs) : ConvFileFails(i)
  \/ \E i \in 1..Len(jobs) : ConvEnd(i)
  \/ ConvReturns

Spec == Init /\ [][Next]_vars

\* The loader alone, on lists longer than the pool: n names, "A" (which has
\* files) first or last and "B" (which has none) everywhere else.  The operating
\* system runs every worker process that can take a step.
PoolList(n, a) == [i \in 1..n |-> IF i = a THEN "A" ELSE "B"]

PoolInit ==
  /\ app = "loader"
  /\ schemaOK = TRUE
  /\ schemas = [n \in Names |-> ColumnDefs]
  /\ files \in {[n \in Names |-> IF n = "A" THEN fl ELSE <<>>] :
                 fl \in {l \in FileLists : l # <<>> /\ l[1].rows > 0 /\ l[1].name = "part-0"}}
  /\ arg \in UNION {{Given(PoolList(n, 1)), Given(PoolList(n, n))} : n \in 1..(PoolCap + MaxExtra)}
  /\ RunInit

LoaderNext ==
  \/ ProcessFiles
  \/ \E i \in 1..Len(jobs) : StartJob(i)
  \/ \E i \in 1..Len(jobs) : WriteChunk(i)
  \/ \E i \in 1..Len(jobs) : WriteFails(i)
  \/ \E i \in 1..Len(jobs) : FinishJob(i)
  \/ PoolMapReturns

\* The loader reading one dataset of one or two well-formed files whose row
\* counts lie around the multiples of the chunk size.
RowCounts ==
  UNION {{k * ChunkSize, k * ChunkSize + 1, (k + 1) * ChunkSize - 1} : k \in 0..MaxChunks}

ReadInit ==
  /\ app = "loader"
  /\ schemaOK = TRUE
  /\ schemas = [n \in Names |-> ColumnDefs]
  /\ files \in {[n \in Names |-> IF n = "A" THEN fl ELSE <<>>] :
                 fl \in {<<File("part-0", r, 0)>> : r \in RowCounts}
                        \cup {<<File("part-0", r, 0), File("part-1", q, 0)>> :
                                r \in RowCounts, q \in RowCounts}}
  /\ arg = Given(<<"A">>)
  /\ RunInit

SpecRead == ReadInit /\ [][LoaderNext]_vars

SpecPool == PoolInit /\ [][LoaderNext]_vars /\ WF_vars(LoaderNext)

\* Both scripts on one dataset of one small file, whose column definitions are
\* any list of distinctly named columns with positions in 1..MaxPos.
ColNames == {"id", "amount", "note"}

ColLists ==
  {[k \in 1..Len(ns) |-> [column_name |-> ns[k], column_position |-> ps[k]]] :
     <<ns, ps>> \in UNION {Perms(S) \X [1..Cardinality(S) -> 1..MaxPos] : S \in SUBSET ColNames}}

ColsInit ==
  /\ app \in {"converter", "loader"}
  /\ schemaOK = TRUE
  /\ schemas \in {[n \in Names |-> cols] : cols \in ColLists}
  /\ files = [n \in Names |-> IF n = "A" THEN <<File("part-0", 1, 0)>> ELSE <<>>]
  /\ arg = Given(<<"A">>)
  /\ RunInit

SpecCols == ColsInit /\ [][Next]_vars

\* ================================================================== claims
AllDone == \A i \in 1..Len(jobs) : jobs[i].st = "done"

\* C1: in the loader, the Dataset Jobs that have started and not finished are
\* at every moment at most the pool cap (8) and at most the number of names.
C1_BoundedConcurrency ==
  app = "loader" =>
    /\ Cardinality(Running) <= PoolCap
    /\ Cardinality(Running) <= Len(ds_names)

\* more names than the cap: the pool is full and an entry waits in the queue
C1_Witness ==
  /\ app = "loader"
  /\ Len(ds_names) > PoolCap
  /\ Cardinality(Running) = PoolCap
  /\ \E i \in 1..Len(jobs) : jobs[i].st = "queued"

\* C2: whatever the number of names (below, at or above the cap), every
\* Dataset Job eventually finishes, and process_files returns only once all of
\* them have finished.
C2_AllJobsFinish ==
  /\ <>(pc = "returned" /\ Len(jobs) = Len(arg.list) /\ AllDone)
  /\ [](pc = "returned" => AllDone)

\* process_files has returned from a run over more names than the cap, in
\* which a batch write failed and another dataset's job ended without files
C2_Witness ==
  /\ pc = "returned"
  /\ Len(jobs) > PoolCap
  /\ AllDone
  /\ \E i \in 1..Len(jobs) : jobs[i].exc = "SinkWriteFailed"

Range(s) == {s[k] : k \in 1..Len(s)}
IsPrefix(s, t) == Len(s) <= Len(t) /\ SubSeq(t, 1, Len(s)) = s
Ended == pc \in {"returned", "raised"}
SinkErrors == {"SinkUnavailable", "SinkWriteFailed"}

\* the batches job i appends for one file when nothing fails, in order
FileBatches(i, ds, f) ==
  LET cs == ReadAll(f, 0, TRUE)
  IN  [k \in 1..Len(cs) |->
         [job |-> i, file |-> f.name, idx |-> k - 1, lo |-> cs[k].lo, hi |-> cs[k].hi,
          columns |-> get_column_names(schemas, ds)]]

\* the batches job i appends for the first n files of its dataset
RECURSIVE JobBatches(_, _, _)
JobBatches(i, ds, n) ==
  IF n = 0 THEN <<>>
  ELSE JobBatches(i, ds, n - 1) \o FileBatches(i, ds, files[ds][n])

\* a dataset whose files are all well formed, known to the schema
Valid(ds) ==
  /\ ds \in DOMAIN schemas
  /\ Len(files[ds]) > 0
  /\ \A k \in 1..Len(files[ds]) : files[ds][k].bad = 0

JobOf(ds) == CHOOSE i \in 1..Len(jobs) : jobs[i].ds = ds

\* C3: over the two datasets a (no part-* file) and b (valid files), in either
\* order, the run ends with a reported as not found and b completed with every
\* batch of every file written, in the converter and in the loader, when the
\* sink fails no write.
C3_FailureIsolation ==
  \A a, b \in Names :
    ( /\ Ended
      /\ schemaOK
      /\ a # b
      /\ arg.list \in {<<a, b>>, <<b, a>>}
      /\ Len(files[a]) = 0
      /\ Valid(b)
      /\ jobs[JobOf(b)].exc \notin SinkErrors )
    => /\ pc = "returned"
       /\ jobs[JobOf(a)].st = "done"
       /\ "NameError" \in Range(jobs[JobOf(a)].out)
       /\ jobs[JobOf(b)].st = "done"
       /\ jobs[JobOf(b)].exc = NoExc
       /\ app = "loader" =>
            tables[b] = SetToBag(Range(JobBatches(JobOf(b), b, Len(files[b]))))
       /\ app = "converter" =>
            /\ b \in dirs
            /\ DOMAIN jsonFiles[b] = {files[b][k].name : k \in 1..Len(files[b])}
            /\ \A k \in 1..Len(files[b]) :
                 LET f == files[b][k]
                 IN  /\ Len(jsonFiles[b][f.name]) = 1
                     /\ jsonFiles[b][f.name][1].lo = 1
                     /\ jsonFiles[b][f.name][1].hi = f.rows

\* the converter has run <<A, B>>: A had no file, B's two files are converted
C3_Witness ==
  /\ app = "converter"
  /\ pc = "returned"
  /\ arg.list = <<"A", "B">>
  /\ Len(files["A"]) = 0
  /\ Valid("B")
  /\ "NameError" \in Range(jobs[1].out)
  /\ DOMAIN jsonFiles["B"] = {"part-0", "part-1"}

NoSinkWrite ==
  /\ \A n \in Names : tables[n] = EmptyBag /\ DOMAIN jsonFiles[n] = {}
  /\ dirs = {}

\* C4: whatever fails in one dataset's job, every other requested dataset's job
\* still runs to its end and process_files does not raise; it raises only for a
\* setup error before any job, and then no job has run and nothing is written.
C4_NoFailFast ==
  /\ pc = "raised" => jobs = <<>> /\ NoSinkWrite
  /\ Ended => AllDone

\* C5: a dataset without any part-* file ends as not found, and nothing is
\* ever written for it: no directory, no file, no table row.
C5_NotFoundNoWrite ==
  \A i \in 1..Len(jobs) :
    Len(files[jobs[i].ds]) = 0 =>
      /\ jobs[i].st \in {"queued", "ending", "done"}
      /\ jobs[i].st \in {"ending", "done"} => jobs[i].exc = "NameError"
      /\ jobs[i].st = "done" => "NameError" \in Range(jobs[i].out)
      /\ tables[jobs[i].ds] = EmptyBag
      /\ jobs[i].ds \notin dirs
      /\ DOMAIN jsonFiles[jobs[i].ds] = {}

\* a job over a dataset without files has ended while another dataset was written
C5_Witness ==
  /\ pc = "returned"
  /\ \E i \in 1..Len(jobs) :
       /\ Len(files[jobs[i].ds]) = 0
       /\ jobs[i].st = "done"
       /\ jobs[i].exc = "NameError"
  /\ ~NoSinkWrite

\* C6 (its case of a dataset that has part-* files): a dataset absent from the
\* schema fails at column resolution with the unknown-dataset error (KeyError);
\* the error is caught at the job boundary and becomes that dataset's failed
\* outcome instead of leaving process_files, and nothing is written for it.
C6_UnknownDatasetContained ==
  \A i \in 1..Len(jobs) :
    ( /\ jobs[i].ds \notin DOMAIN schemas
      /\ Len(files[jobs[i].ds]) > 0
      /\ jobs[i].st = "done" )
    => /\ jobs[i].exc = "KeyError"
       /\ raised = NoExc
       /\ tables[jobs[i].ds] = EmptyBag
       /\ jobs[i].ds \notin dirs
       /\ DOMAIN jsonFiles[jobs[i].ds] = {}

\* C7: a job reports completion exactly when nothing failed; a failed job
\* reports (or raises) its error kind and never reports successful completion.
C7_OutcomeFaithful ==
  \A i \in 1..Len(jobs) :
    (jobs[i].st = "done" /\ jobs[i].exc # NoExc) =>
      /\ jobs[i].exc \in Range(jobs[i].out) \/ raised = jobs[i].exc
      /\ "completed successfully" \notin Range(jobs[i].out)

Size(b) == b.hi - b.lo + 1
CeilDiv(a, b) == (a + b - 1) \div b

\* what the table holds of one file, written by job i
Written(i, ds, name) ==
  {b \in BagToSet(tables[ds]) : b.job = i /\ b.file = name}

\* the m-th batch the reader produced (enumerate counts from 0)
Nth(t, m) == CHOOSE b \in t : b.idx = m - 1

\* the batches are numbered 0, 1, ... and are consecutive pieces of the rows
\* 1..r, in the order produced
Contiguous(t, r) ==
  /\ \A m \in 1..Cardinality(t) : \E b \in t : b.idx = m - 1
  /\ t # {} => Nth(t, 1).lo = 1 /\ Nth(t, Cardinality(t)).hi = r
  /\ \A m \in 1..(Cardinality(t) - 1) : Nth(t, m + 1).lo = Nth(t, m).hi + 1

\* C8, as stated: a file of R rows read with batch size B = 10000 yields exactly
\* ceil(R/B) batches, of B rows each except the last (R mod B rows, or B), whose
\* concatenation in order is the file's row sequence, for every R >= 0.
C8_Chunking_Original ==
  \A i \in 1..Len(jobs) :
    (app = "loader" /\ jobs[i].st = "done" /\ jobs[i].exc = NoExc) =>
      \A k \in 1..Len(files[jobs[i].ds]) :
        LET f == files[jobs[i].ds][k]
            t == Written(i, jobs[i].ds, f.name)
        IN  /\ Cardinality(t) = CeilDiv(f.rows, ChunkSize)
            /\ \A b \in t : CopiesIn(b, tables[jobs[i].ds]) = 1
            /\ Contiguous(t, f.rows)
            /\ \A m \in 1..Cardinality(t) :
                 Size(Nth(t, m)) = IF m < Cardinality(t) \/ f.rows % ChunkSize = 0
                                   THEN ChunkSize ELSE f.rows % ChunkSize

\* C8, amended: the same for every R >= 1; a file with no row (R = 0) yields one
\* batch, which has no row.
C8_Chunking ==
  \A i \in 1..Len(jobs) :
    (app = "loader" /\ jobs[i].st = "done" /\ jobs[i].exc = NoExc) =>
      \A k \in 1..Len(files[jobs[i].ds]) :
        LET f == files[jobs[i].ds][k]
            t == Written(i, jobs[i].ds, f.name)
        IN  /\ Cardinality(t) = IF f.rows = 0 THEN 1 ELSE CeilDiv(f.rows, ChunkSize)
            /\ \A b \in t : CopiesIn(b, tables[jobs[i].ds]) = 1
            /\ Contiguous(t, f.rows)
            /\ \A m \in 1..Cardinality(t) :
                 Size(Nth(t, m)) = IF f.rows = 0 THEN 0
                                   ELSE IF m < Cardinality(t) \/ f.rows % ChunkSize = 0
                                   THEN ChunkSize ELSE f.rows % ChunkSize

\* a file of MaxChunks full chunks and a file of a chunk and a row were read whole
C8_Witness ==
  /\ jobs # <<>>
  /\ jobs[1].st = "done"
  /\ jobs[1].exc = NoExc
  /\ Len(files["A"]) = 2
  /\ files["A"][1].rows = MaxChunks * ChunkSize
  /\ files["A"][2].rows = ChunkSize + 1
  /\ BagCardinality(tables["A"]) = MaxChunks + 2

\* C9: within one file a job appends the batches in file order, the next one
\* only when the previous append has returned, none twice and, when nothing
\* fails, none skipped: at every moment the table holds, once each, the first
\* batches of the file and no later one.
C9_BatchesInFileOrder ==
  \A i \in 1..Len(jobs) :
    (app = "loader" /\ jobs[i].ds \in DOMAIN schemas) =>
      \A k \in 1..Len(files[jobs[i].ds]) :
        LET f == files[jobs[i].ds][k]
            t == Written(i, jobs[i].ds, f.name)
            full == FileBatches(i, jobs[i].ds, f)
        IN  /\ Cardinality(t) <= Len(full)
            /\ t = {full[m] : m \in 1..Cardinality(t)}
            /\ \A b \in t : CopiesIn(b, tables[jobs[i].ds]) = 1
            /\ (jobs[i].st = "write" /\ jobs[i].fi = k) =>
                 /\ Cardinality(t) = jobs[i].chunk.idx
                 /\ Cardinality(t) < Len(full)
                 /\ jobs[i].chunk = full[Cardinality(t) + 1]
            /\ (jobs[i].st = "done" /\ jobs[i].exc = NoExc) => t = Range(full)

\* a job has appended every batch of a file of several chunks, while another
\* job was appending to the same table
C9_Witness ==
  /\ app = "loader"
  /\ \E i \in 1..Len(jobs) :
       /\ jobs[i].st = "done"
       /\ jobs[i].exc = NoExc
       /\ \E b \in BagToSet(tables[jobs[i].ds]) : b.job = i /\ b.idx = 1
       /\ \E b \in BagToSet(tables[jobs[i].ds]) : b.job # i

\* a step in which a sink write raised
SinkFailedStep ==
  \E i \in 1..Len(jobs) : jobs[i].exc = NoExc /\ jobs'[i].exc \in SinkErrors

TablesKept == \A n \in Names : tables[n] \sqsubseteq tables'[n]

JsonFilesKept ==
  \A n \in Names : \A f \in DOMAIN jsonFiles[n] :
    f \in DOMAIN jsonFiles'[n] /\ IsPrefix(jsonFiles[n][f], jsonFiles'[n][f])

\* C10, as stated: a batch write of either sink keeps, unchanged, every record
\* its destination held before; a second run of a job adds to the first's output.
C10_AppendOnly_Original ==
  [][~SinkFailedStep => (TablesKept /\ JsonFilesKept)]_vars

\* to_json rewrites one file: that file then holds the batch alone, every other
\* file is as it was, and no file disappears
JsonFileReplaced ==
  \A n \in Names : \A f \in DOMAIN jsonFiles[n] :
    /\ f \in DOMAIN jsonFiles'[n]
    /\ jsonFiles'[n][f] # jsonFiles[n][f] =>
         /\ Len(jsonFiles'[n][f]) = 1
         /\ \A m \in Names : \A g \in DOMAIN jsonFiles[m] :
              <<m, g>> # <<n, f>> => jsonFiles'[m][g] = jsonFiles[m][g]

\* C10, amended: the table sink is append-only (a write keeps every row the
\* table held and adds the batch after them, also on a second run of the job);
\* the file sink replaces the content of the one destination file it writes by
\* the batch and leaves every other file as it was.
C10_AppendOnly ==
  [][~SinkFailedStep => (TablesKept /\ JsonFileReplaced)]_vars

\* the converter ran the same dataset twice: the file holds the second run's
\* records only
C10_Witness ==
  /\ app = "converter"
  /\ Len(jobs) = 2
  /\ jobs[1].ds = jobs[2].ds
  /\ jobs[1].exc = NoExc
  /\ jobs[2].st = "done"
  /\ \E f \in DOMAIN jsonFiles[jobs[2].ds] :
       /\ Len(jsonFiles[jobs[2].ds][f]) = 1
       /\ jsonFiles[jobs[2].ds][f][1].job = 2
       /\ jsonFiles[jobs[2].ds][f][1].hi > 0

\* where a column name stands in the schema document, and its position
DocIndex(cols, name) == CHOOSE k \in 1..Len(cols) : cols[k].column_name = name
PositionOf(cols, name) == cols[DocIndex(cols, name)].column_position

\* r lists the names of cols, each once, by ascending position and, among
\* equal positions, in document order
OrderedNames(r, cols) ==
  /\ Len(r) = Len(cols)
  /\ Range(r) = {cols[k].column_name : k \in 1..Len(cols)}
  /\ \A a, b \in 1..Len(r) :
       a < b =>
         \/ PositionOf(cols, r[a]) < PositionOf(cols, r[b])
         \/ /\ PositionOf(cols, r[a]) = PositionOf(cols, r[b])
            /\ DocIndex(cols, r[a]) < DocIndex(cols, r[b])

\* every DataFrame a job holds or a sink has received
DataFrames ==
  {jobs[i].chunk : i \in {k \in 1..Len(jobs) : jobs[k].st = "write"}}
  \cup UNION {BagToSet(tables[n]) : n \in Names}
  \cup UNION {UNION {Range(jsonFiles[n][f]) : f \in DOMAIN jsonFiles[n]} : n \in Names}

\* C11: for every dataset of the schema, get_column_names returns the names of
\* the dataset's columns, each once, by ascending column_position whatever the
\* order of the definitions in the document; definitions of equal position
\* keep their document order.  Every DataFrame read carries these names.
C11_ColumnOrder ==
  /\ \A n \in DOMAIN schemas : OrderedNames(get_column_names(schemas, n), schemas[n])
  /\ \A df \in DataFrames : OrderedNames(df.columns, schemas["A"])

\* a DataFrame was written whose three columns were defined out of position
\* order, two of them at the same position
C11_Witness ==
  /\ schemas["A"] = << [column_name |-> "note", column_position |-> 2],
                       [column_name |-> "id", column_position |-> 1],
                       [column_name |-> "amount", column_position |-> 1] >>
  /\ \E df \in DataFrames : df.columns = <<"id", "amount", "note">> /\ df.job = 1
  /\ pc = "returned"

\* job i has been started: process_dataset / the loop body was entered for it
Ran(i) == jobs[i].st # "queued" /\ "Processing" \in Range(jobs[i].out)

\* C12 (its cases of an omitted list and of a list that names something): when
\* process_files has ended after loading the schema, called without a list it
\* has run exactly one Dataset Job for every key of the schema and none for
\* anything else; called with a list it has run exactly one per listed name,
\* in the order listed, and none for a key that is not listed.
C12_OneJobPerName ==
  (Ended /\ schemaOK) =>
    /\ arg = None =>
         /\ Len(jobs) = Cardinality(DOMAIN schemas)
         /\ \A n \in DOMAIN schemas : \E i \in 1..Len(jobs) : jobs[i].ds = n /\ Ran(i)
         /\ \A i \in 1..Len(jobs) : jobs[i].ds \in DOMAIN schemas
    /\ (arg.given /\ arg.list # <<>>) =>
         /\ Len(jobs) = Len(arg.list)
         /\ \A k \in 1..Len(jobs) : jobs[k].ds = arg.list[k] /\ Ran(k)

\* job i is inside to_sql: its worker process is appending a batch to a table
Appending(i) == jobs[i].st = "write"

\* C13: in the loader, whatever list of names process_files was given, two
\* Dataset Jobs that execute at the same time never append to the same table.
C13_NoSharedTable ==
  app = "loader" =>
    \A i, k \in 1..Len(jobs) :
      (i # k /\ Appending(i) /\ Appending(k)) => jobs[i].ds # jobs[k].ds

\* the batches of job i that a state of the tables holds
JobRows(tbls, i) == {b \in BagToSet(tbls[jobs[i].ds]) : b.job = i}

\* job i appended the whole of the first n - 1 files of its dataset and the
\* batches 0..k-1 of file n, and nothing else
StoppedAt(i, n, k) ==
  LET ds == jobs[i].ds
      full == FileBatches(i, ds, files[ds][n])
  IN  /\ k < Len(full)
      /\ JobRows(tables, i) = Range(JobBatches(i, ds, n - 1)) \cup {full[m] : m \in 1..k}

\* C14 (state part): a loader job whose append of batch k of a file failed has
\* in the table, once each, the batches before k of that file (and the files
\* before it) and no batch from k on; when it has ended, its error is in its
\* own report; a job that ended without failure has every batch of its dataset
\* in the table, whatever happened to the other jobs.
C14_Stopped ==
  app = "loader" =>
    \A i \in 1..Len(jobs) :
      /\ \A b \in JobRows(tables, i) : CopiesIn(b, tables[jobs[i].ds]) = 1
      /\ jobs[i].exc \in SinkErrors =>
           /\ \E n \in 1..Len(files[jobs[i].ds]) :
                \E k \in 0..Len(FileBatches(i, jobs[i].ds, files[jobs[i].ds][n])) :
                  StoppedAt(i, n, k)
           /\ jobs[i].st = "done" => jobs[i].exc \in Range(jobs[i].out)
      /\ (jobs[i].st = "done" /\ jobs[i].exc = NoExc /\ jobs[i].ds \in DOMAIN schemas) =>
           JobRows(tables, i) = Range(JobBatches(i, jobs[i].ds, Len(files[jobs[i].ds])))

\* C14 (step part): the step in which the append fails and every later step
\* leave the failed job's batches in the table as they are: none is taken
\* out, none is added; a job's step changes no table but its own dataset's
\* and no batch of another job.
C14_Kept ==
  \A i \in 1..Len(jobs) :
    /\ jobs'[i].exc \in SinkErrors =>
         /\ JobRows(tables', i) = JobRows(tables, i)
         /\ \A b \in JobRows(tables, i) : CopiesIn(b, tables'[jobs[i].ds]) = 1
    /\ jobs'[i] # jobs[i] =>
         /\ \A n \in Names \ {jobs[i].ds} : tables'[n] = tables[n]
         /\ \A k \in 1..Len(jobs) \ {i} : JobRows(tables', k) = JobRows(tables, k)

\* C14: in the loader, when the append of batch k of a file fails, no batch
\* after k of that file is appended, the batches 0..k-1 stay in the table, and
\* the failure is reported as that dataset's failure without changing what a
\* sibling dataset's job writes.
C14_FailFastInFile == [](C14_Stopped) /\ [][app = "loader" => C14_Kept]_vars

\* the append of the second batch of A's first file failed: the table keeps
\* the first batch alone, the error is in A's report, and B's job, which ran
\* beside it, has written both its files
C14_Witness ==
  /\ app = "loader"
  /\ pc = "returned"
  /\ arg.list = <<"A", "B">>
  /\ jobs[1].exc = "SinkWriteFailed"
  /\ "SinkWriteFailed" \in Range(jobs[1].out)
  /\ JobRows(tables, 1) = {FileBatches(1, "A", files["A"][1])[1]}
  /\ Len(FileBatches(1, "A", files["A"][1])) = 2
  /\ jobs[2].exc = NoExc
  /\ BagCardinality(tables["B"]) = 3

\* how often entry i's job was started: each start prints 'Processing <name>'
Starts(i) == Cardinality({k \in 1..Len(jobs[i].out) : jobs[i].out[k] = "Processing"})

\* C15: no Dataset Job is retried: within one call of process_files no entry
\* of the list starts its job twice, not after a failure or a not-found
\* either, and when the call has ended every entry has started its job
\* exactly once.
C15_StartedOnce ==
  /\ \A i \in 1..Len(jobs) : Starts(i) <= 1
  /\ \A i \in 1..Len(jobs) : jobs[i].st = "done" => Starts(i) = 1
  /\ Ended => \A i \in 1..Len(jobs) : Starts(i) = 1

\* the files of job i's dataset that hold records written by job i
JobFiles(jf, i) ==
  {f \in DOMAIN jf[jobs[i].ds] :
     jf[jobs[i].ds][f] # <<>> /\ jf[jobs[i].ds][f][1].job = i}

\* job i has written the whole of file f: every batch into the table (loader),
\* the file's records into the JSON file of its name (converter)
FileDone(i, ds, f) ==
  IF app = "loader"
  THEN /\ Written(i, ds, f.name) = Range(FileBatches(i, ds, f))
       /\ \A b \in Written(i, ds, f.name) : CopiesIn(b, tables[ds]) = 1
  ELSE /\ f.name \in JobFiles(jsonFiles, i)
       /\ Len(jsonFiles[ds][f.name]) = 1
       /\ jsonFiles[ds][f.name][1].lo = 1
       /\ jsonFiles[ds][f.name][1].hi = f.rows

\* job i has written nothing of file f
FileUntouched(i, ds, f) ==
  IF app = "loader" THEN Written(i, ds, f.name) = {}
  ELSE f.name \notin JobFiles(jsonFiles, i)

\* C16 (state part): a job over a dataset with files that has failed, failed
\* at one file n: the files before n are written whole, of the files after n
\* the job has written nothing.
C16_Stopped ==
  \A i \in 1..Len(jobs) :
    (jobs[i].exc # NoExc /\ Len(files[jobs[i].ds]) > 0) =>
      \E n \in 1..Len(files[jobs[i].ds]) :
        \A m \in 1..Len(files[jobs[i].ds]) :
          /\ m < n => FileDone(i, jobs[i].ds, files[jobs[i].ds][m])
          /\ m > n => FileUntouched(i, jobs[i].ds, files[jobs[i].ds][m])

\* C16 (step part): once a job has failed, no step adds to or takes from what
\* it has written: the job is over, and its completed files keep their output.
C16_Kept ==
  \A i \in 1..Len(jobs) :
    jobs[i].exc # NoExc =>
      /\ JobRows(tables', i) = JobRows(tables, i)
      /\ JobFiles(jsonFiles', i) = JobFiles(jsonFiles, i)
      /\ \A f \in JobFiles(jsonFiles, i) :
           jsonFiles'[jobs[i].ds][f] = jsonFiles[jobs[i].ds][f]

\* C16: within one Dataset Job over several files, a failure while reading or
\* writing one file ends the whole job: no batch of a file the job had not yet
\* started is ever written, and the files completed before the failure keep
\* their output.
C16_FailureEndsJob == [](C16_Stopped) /\ [][C16_Kept]_vars

\* the loader has run two datasets of two files each: A's first file had a
\* malformed row in its second chunk, and nothing of A's second file was
\* written; B's second file failed at the sink, and the two batches of B's
\* first file are in the table
C16_Witness ==
  /\ app = "loader"
  /\ pc = "returned"
  /\ arg.list = <<"A", "B">>
  /\ Len(files["A"]) = 2
  /\ Len(files["B"]) = 2
  /\ jobs[1].exc = "ParserError"
  /\ Written(1, "A", files["A"][2].name) = {}
  /\ jobs[2].exc \in SinkErrors
  /\ Cardinality(Written(2, "B", files["B"][1].name)) = 2
  /\ Written(2, "B", files["B"][2].name) = {}

\* C17: process_files called with an explicitly given empty list works, as for
\* an omitted list, on the keys of the schema: its list of names is the keys,
\* each once, it has one Dataset Job per key (never zero jobs for a schema
\* with keys), and when it returns every one of them has run.
C17_EmptyListIsOmitted ==
  (schemaOK /\ pc # "call" /\ arg = Given(<<>>)) =>
    /\ ds_names \in Perms(DOMAIN schemas)
    /\ Len(jobs) = Cardinality(DOMAIN schemas)
    /\ \A i \in 1..Len(jobs) : jobs[i].ds = ds_names[i]
    /\ pc = "returned" => \A i \in 1..Len(jobs) : Ran(i) /\ jobs[i].st = "done"

\* process_files([]) has returned over a schema of two keys: both datasets
\* had their job, and one of them was written
C17_Witness ==
  /\ arg = Given(<<>>)
  /\ DOMAIN schemas = {"A", "B"}
  /\ pc = "returned"
  /\ {jobs[i].ds : i \in 1..Len(jobs)} = {"A", "B"}
  /\ \A i \in 1..Len(jobs) : Ran(i)
  /\ ~NoSinkWrite

\* C18: every call of the loader's process_files whose schema document loads
\* creates its worker pool with a size p, 1 <= p <= 8, also when no names are
\* given and the schema has no dataset.
C18_PoolSizeInRange ==
  (app = "loader" /\ schemaOK /\ pc # "call") =>
    /\ pprocess \in 1..PoolCap
    /\ raised # "ValueError"

====
